---- MODULE Spec2Model ----
(***************************************************************************)
(* State-machine model of the one-gate backend: the per-user SSE event     *)
(* broker (main.py, _SseBroker), the record lifecycle handlers             *)
(* (api/records.py) and the background classification task                 *)
(* (helpers/ai_helpers.py, ai/app.py).                                     *)
(*                                                                         *)
(* Scheduling: one asyncio event loop.  A handler runs without             *)
(* interleaving up to a point where it really suspends.  The storage calls *)
(* (supabase ... .execute()) and the model call (generate_content) are     *)
(* synchronous, and broker.publish / subscribe / unsubscribe take a lock   *)
(* that is never held across a suspension, so each of them completes       *)
(* within the step of the handler that calls it.                           *)
(***************************************************************************)
EXTENDS Integers, Sequences, FiniteSets, TLC

\* ----------------------------------------------------------------- bounds
MaxRecords == 1      \* records created by analyze_content
MaxQueues  == 2      \* queues created by subscribe
MaxStreams == 1      \* stream connections opened by stream_records
MaxQueueLen == 2     \* messages waiting in a queue when a caller publishes
MaxBacklog == 3      \* messages in a queue when update_record / upload_record publish
MaxUploads == 2      \* calls to the external calendar / notes service per record
MaxPublished == 3    \* messages published while streams are consumed
MaxEmitted == 4      \* frames a stream has yielded when a keepalive ping is added
MaxScript == 4       \* scripted answers of the model behind one _gemini_generate call
MaxText == 4         \* characters of a response text drawn from ScanChars
MaxCalls == 2        \* broker calls in flight at once

\* -------------------------------------------------------------- constants
MAX_RETRIES == 2
KEEPALIVE_TIMEOUT == 15
QUEUE_MAXSIZE == 0

Null == "null"
Users == {"u1", "u2"}

\* Input texts, by the properties the code inspects: None, whitespace only,
\* a text with a calendar keyword; "note" is a text without one.
Texts == {Null, "blank", "meet"}
IsTruthyText(t) == t # Null
IsBlankText(t) == t \in {Null, "blank"}

\* analyze_content's first type estimate ("내일" / "시" / "일정" in text)
InitialType(t) == IF t = "meet" THEN "CALENDAR" ELSE "MEMO"

\* ------------------------------------------------------------------ dicts
\* A JSON object as the code handles it: one field per key the code reads,
\* Null for an absent key (or None).
EmptyDict ==
    [analysis_failed |-> Null, error |-> Null, raw_text |-> Null,
     type |-> Null, summary |-> Null, start_time |-> Null, confidence |-> Null]

Dict(type, summary, start_time, confidence) ==
    [EmptyDict EXCEPT !.type = type, !.summary = summary,
                      !.start_time = start_time, !.confidence = confidence]

\* _parse_json_response's failure value {"error": ..., "raw": text}
ParseErrorDict == [EmptyDict EXCEPT !.error = "parse_failed", !.raw_text = "raw"]

HasKey(d, k) == d[k] # Null

\* helpers/date_utils._parse_iso_datetime raises on anything but ISO text
ParsesAsIsoDatetime(v) == v = "iso"

\* AIAnalysisData(**d) succeeds
SchemaValid(d) ==
    /\ d.type \in {Null, "CALENDAR", "MEMO"}
    /\ d.summary # Null
    /\ (d.start_time # Null => ParsesAsIsoDatetime(d.start_time))

\* AIAnalysisData(**d).model_dump(exclude_none=True): the declared fields
\* only (type defaults to MEMO); keys the schema does not declare are dropped
ModelDump(d) ==
    [EmptyDict EXCEPT !.type = IF d.type = Null THEN "MEMO" ELSE d.type,
                      !.summary = d.summary,
                      !.start_time = d.start_time]

\* fail_result of _run_ai_analysis
FailResult(msg, raw) ==
    [EmptyDict EXCEPT !.analysis_failed = "true", !.error = msg,
                      !.raw_text = IF raw # Null THEN raw ELSE Null]

\* ---------------------------------------------------------------- messages
\* One SSE frame "event: <event>\ndata: <json payload>\n\n", kept as the
\* event name and the payload keys.
Msg(event, rid, status, data, error, upload) ==
    [event |-> event, record_id |-> rid, status |-> status,
     analysis_data |-> data, error |-> error, upload_result |-> upload]

ConnectedFrame == Msg("connected", 0, Null, EmptyDict, Null, Null)
PingFrame      == Msg("ping", 0, Null, EmptyDict, Null, Null)
\* no message
NoMsg          == Msg("none", 0, Null, EmptyDict, Null, Null)

\* ------------------------------------------------------------------ broker
\* _queues_by_user is a function whose DOMAIN is the set of keys of the dict.
QueuesOf(qbu, u) == IF u \in DOMAIN qbu THEN qbu[u] ELSE {}

\* _SseBroker.subscribe: setdefault(user_id, set()).add(queue)
BrokerSubscribe(qbu, u, q) ==
    [x \in DOMAIN qbu \cup {u} |->
        IF x = u THEN QueuesOf(qbu, u) \cup {q} ELSE qbu[x]]

\* _SseBroker.unsubscribe
Mut_BrokerUnsubscribe_DropAll(qbu, u, q) ==
    IF QueuesOf(qbu, u) = {}
    THEN qbu
    ELSE [x \in DOMAIN qbu \ {u} |-> qbu[x]]

Mut_BrokerUnsubscribe_KeepsEmptySet(qbu, u, q) ==
    IF QueuesOf(qbu, u) = {}
    THEN qbu
    ELSE [qbu EXCEPT ![u] = qbu[u] \ {q}]

BrokerUnsubscribe(qbu, u, q) ==
    IF QueuesOf(qbu, u) = {}
    THEN qbu
    ELSE LET queues == qbu[u] \ {q}
         IN  IF queues = {}
             THEN [x \in DOMAIN qbu \ {u} |-> qbu[x]]
             ELSE [qbu EXCEPT ![u] = queues]

\* _SseBroker.publish: the snapshot list(self._queues_by_user.get(user_id, set()))
Mut_PublishSnapshot_AllUsers(qbu, u) ==
    UNION {qbu[x] : x \in DOMAIN qbu}

PublishSnapshot(qbu, u) == QueuesOf(qbu, u)

\* asyncio.Queue.full(): a maxsize of 0, the default subscribe uses, is no
\* limit
QueueFull(waiting) == QUEUE_MAXSIZE > 0 /\ Len(waiting) >= QUEUE_MAXSIZE

\* queue.put_nowait(message) inside try / except asyncio.QueueFull: pass
Mut_PutNowait_FullAtOne(waiting, m) ==
    IF Len(waiting) >= 1 THEN waiting ELSE Append(waiting, m)

PutNowait(waiting, m) ==
    IF QueueFull(waiting) THEN waiting ELSE Append(waiting, m)

\* _SseBroker.publish: put_nowait(message) on every queue of the snapshot
BrokerPublish(qbu, qm, u, m) ==
    [q \in DOMAIN qm |->
        IF q \in PublishSnapshot(qbu, u) THEN PutNowait(qm[q], m) ELSE qm[q]]

\* ------------------------------------------------------------------- state
VARIABLES
    queues_by_user,   \* _SseBroker._queues_by_user: user id -> set of queue ids
    queue_msgs,       \* the asyncio.Queue objects, by queue id: waiting messages
    conns,            \* stream_records connections, by queue id
    records,          \* the "inputs" table, by record id
    tasks,            \* the _run_ai_analysis background task of each record
    pubs,             \* by record id: how many record_created, analysis_completed
                      \* and analysis_failed events were published about it
    ext,              \* by record id: calls made to the calendar / notes service
    ai_available,     \* ai.app.is_ai_available()
    gemini,           \* the model behind _gemini_generate and the last call of
                      \* POST /ai/analyze: what the model answers on its
                      \* successive invocations, how many were made, the result
    published,        \* how many messages the publisher of the stream
                      \* specification has handed to broker.publish
    lock,             \* _SseBroker._lock: the call holding it, and the broker
                      \* calls in flight, each at its next statement
    parse,            \* the response text under recovery in ai.app and what
                      \* _parse_json_response or _fix_truncated_json made of it
    resp              \* the last call: its arguments, its HTTP status (200 for a
                      \* call that is not a request) and the message it
                      \* published (or, for a consumer, received)

vars == <<queues_by_user, queue_msgs, conns, records, tasks, pubs, ext,
          ai_available, gemini, published, lock, parse, resp>>

brokerVars == <<queues_by_user, queue_msgs>>
envVars == <<ai_available, gemini, published, lock, parse>>
recordVars == <<records, tasks, pubs, ext>>

QueueIds  == 1..Len(queue_msgs)
RecordIds == 1..Len(records)

NoResp == [op |-> "none", user |-> Null, queue |-> 0, record_id |-> 0,
           code |-> 0, msg |-> NoMsg]

Resp(op, user, queue, rid, code, msg) ==
    [op |-> op, user |-> user, queue |-> queue, record_id |-> rid,
     code |-> code, msg |-> msg]

\* no call of POST /ai/analyze was made, no model answers are scripted
NoCall == [script |-> << >>, calls |-> 0, kind |-> "idle", value |-> EmptyDict]

\* a response text: its characters, whether they came inside a ```json fence,
\* whether the text holds a "type" and a non-empty "summary" field
ResponseText(text, fenced, has_type, has_summary) ==
    [text |-> text, fenced |-> fenced,
     has_type |-> has_type, has_summary |-> has_summary]

\* what a recovery call returned: the stages it ran, the JSON text it worked
\* on, the scanned and the repaired text, the kind of result and its value
\* (the text that parsed, or the raw text of a failure)
Recovery(op, kind, stages, json_str, scanned, fixed, value) ==
    [op |-> op, kind |-> kind, stages |-> stages, json_str |-> json_str,
     scanned |-> scanned, fixed |-> fixed, value |-> value]

NoRecovery == Recovery("none", "idle", << >>, << >>, << >>, << >>, << >>)

\* a broker call in flight: the method, its arguments, the statement it
\* executes next, the snapshot publish took
BrokerCall(op, user, queue, pc, snap) ==
    [op |-> op, user |-> user, queue |-> queue, pc |-> pc, snap |-> snap]

IdleCall == BrokerCall("none", Null, 0, "done", {})

\* the lock is free and no broker call is in flight; owner is the user each
\* queue was subscribed for, unsubscribed the queues whose subscriber's
\* unsubscribe call has returned
NoLock == [holder |-> 0, calls |-> [c \in 1..MaxCalls |-> IdleCall],
           owner |-> << >>, unsubscribed |-> {}]

\* no response text is under recovery
NoParse == [input |-> ResponseText(<< >>, FALSE, FALSE, FALSE), out |-> NoRecovery]

InitCommon ==
    /\ queues_by_user = << >>
    /\ queue_msgs = << >>
    /\ conns = << >>
    /\ records = << >>
    /\ tasks = << >>
    /\ pubs = << >>
    /\ ext = << >>
    /\ published = 0
    /\ resp = NoResp

\* ---------------------------------------------- the broker driven on its own
\* _SseBroker called directly, with any arguments a caller may pass.
BrokerEvents == {"record_created", "record_updated"}

BInit ==
    /\ InitCommon
    /\ lock = NoLock
    /\ parse = NoParse
    /\ ai_available = TRUE
    /\ gemini = NoCall

\* await broker.subscribe(u)
SubscribeCall(u) ==
    /\ Len(queue_msgs) < MaxQueues
    /\ LET q == Len(queue_msgs) + 1
       IN  /\ queue_msgs' = Append(queue_msgs, << >>)
           /\ queues_by_user' = BrokerSubscribe(queues_by_user, u, q)
           /\ resp' = Resp("subscribe", u, q, 0, 200, NoMsg)
    /\ UNCHANGED <<conns, recordVars, envVars>>

\* await broker.unsubscribe(u, q), q any queue handle (0: a queue the broker
\* has never seen)
UnsubscribeCall(u, q) ==
    /\ queues_by_user' = BrokerUnsubscribe(queues_by_user, u, q)
    /\ resp' = Resp("unsubscribe", u, q, 0, 200, NoMsg)
    /\ UNCHANGED <<queue_msgs, conns, recordVars, envVars>>

\* await broker.publish(u, event, {"record_id": 1})
PublishCall(u, event) ==
    /\ \A q \in QueuesOf(queues_by_user, u) : Len(queue_msgs[q]) < MaxQueueLen
    /\ LET m == Msg(event, 1, Null, EmptyDict, Null, Null)
       IN  /\ queue_msgs' = BrokerPublish(queues_by_user, queue_msgs, u, m)
           /\ resp' = Resp("publish", u, 0, 1, 200, m)
    /\ UNCHANGED <<queues_by_user, conns, recordVars, envVars>>

\* a consumer takes the head of a queue it holds (queue.get())
GetCall(q) ==
    /\ queue_msgs[q] # << >>
    /\ queue_msgs' = [queue_msgs EXCEPT ![q] = Tail(@)]
    /\ resp' = Resp("get", Null, q, 0, 200, Head(queue_msgs[q]))
    /\ UNCHANGED <<queues_by_user, conns, recordVars, envVars>>

BNext ==
    \/ \E u \in Users : SubscribeCall(u)
    \/ \E u \in Users, q \in 0..MaxQueues : UnsubscribeCall(u, q)
    \/ \E u \in Users, e \in BrokerEvents : PublishCall(u, e)
    \/ \E q \in QueueIds : GetCall(q)

SpecBroker == BInit /\ [][BNext]_vars

\* ------------------------------------------- the broker under its lock
\* subscribe, unsubscribe and publish statement by statement: "acquire" is
\* async with self._lock, "map" the body under the lock, "release" the end
\* of the with block, "enqueue" the put_nowait loop of publish.

\* the statement after pc in the method op
Mut_NextPc_EnqueueUnderLock(op, pc) ==
    CASE pc = "acquire" -> "map"
      [] pc = "map"     -> IF op = "publish" THEN "enqueue" ELSE "release"
      [] pc = "enqueue" -> "release"
      [] OTHER          -> "done"

NextPc(op, pc) ==
    CASE pc = "acquire" -> "map"
      [] pc = "map"     -> "release"
      [] pc = "release" -> IF op = "publish" THEN "enqueue" ELSE "done"
      [] OTHER          -> "done"

\* the coroutine is suspended before its statement pc: asyncio.Lock.acquire
\* waits only while the lock is taken, and no other statement awaits
Mut_SuspendsAt_AfterRelease(op, pc, held) ==
    \/ pc = "acquire" /\ held
    \/ op = "publish" /\ pc = "enqueue"

SuspendsAt(op, pc, held) == pc = "acquire" /\ held

\* the call runs: it has started, has not returned and is not suspended; the
\* event loop runs nothing else until it suspends or returns
MidRun(call) ==
    call.pc # "done" /\ ~SuspendsAt(call.op, call.pc, lock.holder # 0)

OthersIdle(c) == \A d \in 1..MaxCalls \ {c} : ~MidRun(lock.calls[d])

LockInit ==
    /\ InitCommon
    /\ lock = NoLock
    /\ parse = NoParse
    /\ ai_available = TRUE
    /\ gemini = NoCall

\* a task calls subscribe(u): the queue is created before the lock is asked for
LockSubscribe(c, u) ==
    /\ lock.calls[c].pc = "done"
    /\ OthersIdle(c)
    /\ Len(queue_msgs) < MaxQueues
    /\ queue_msgs' = Append(queue_msgs, << >>)
    /\ lock' = [lock EXCEPT
                  !.calls[c] = BrokerCall("subscribe", u, Len(queue_msgs) + 1,
                                          "acquire", {}),
                  !.owner = Append(@, u)]
    /\ UNCHANGED <<queues_by_user, conns, recordVars, ai_available, gemini,
                   published, parse, resp>>

\* a task calls unsubscribe(u, q) or publish(u, ...)
LockCall(c, op, u, q) ==
    /\ lock.calls[c].pc = "done"
    /\ OthersIdle(c)
    /\ \/ op = "unsubscribe" /\ q \in QueueIds
       \/ /\ op = "publish" /\ q = 0
          /\ \A x \in QueueIds : Len(queue_msgs[x]) < MaxQueueLen
    /\ lock' = [lock EXCEPT !.calls[c] = BrokerCall(op, u, q, "acquire", {})]
    /\ UNCHANGED <<brokerVars, conns, recordVars, ai_available, gemini,
                   published, parse, resp>>

\* the call c executes its next statement
LockStep(c) ==
    LET call == lock.calls[c]
        next == NextPc(call.op, call.pc)
        returned == IF /\ next = "done" /\ call.op = "unsubscribe"
                       /\ lock.owner[call.queue] = call.user
                    THEN {call.queue} ELSE {}
    IN  /\ call.pc # "done"
        /\ OthersIdle(c)
        /\ CASE call.pc = "acquire" ->
                  /\ lock.holder = 0
                  /\ lock' = [lock EXCEPT !.holder = c, !.calls[c].pc = next]
                  /\ UNCHANGED brokerVars
             [] call.pc = "map" ->
                  /\ queues_by_user' =
                        CASE call.op = "subscribe" ->
                               BrokerSubscribe(queues_by_user, call.user, call.queue)
                          [] call.op = "unsubscribe" ->
                               BrokerUnsubscribe(queues_by_user, call.user, call.queue)
                          [] OTHER -> queues_by_user
                  /\ lock' = [lock EXCEPT
                                !.calls[c].pc = next,
                                !.calls[c].snap =
                                   IF call.op = "publish"
                                   THEN PublishSnapshot(queues_by_user, call.user)
                                   ELSE @]
                  /\ UNCHANGED queue_msgs
             [] call.pc = "release" ->
                  /\ lock' = [lock EXCEPT !.holder = 0, !.calls[c].pc = next,
                                          !.unsubscribed = @ \cup returned]
                  /\ UNCHANGED brokerVars
             [] call.pc = "enqueue" ->
                  /\ queue_msgs' =
                        [x \in DOMAIN queue_msgs |->
                           IF x \in call.snap
                           THEN PutNowait(queue_msgs[x],
                                          Msg("record_updated", 1, Null, EmptyDict,
                                              Null, Null))
                           ELSE queue_msgs[x]]
                  /\ lock' = [lock EXCEPT !.calls[c].pc = next]
                  /\ UNCHANGED queues_by_user
        /\ UNCHANGED <<conns, recordVars, ai_available, gemini, published,
                       parse, resp>>

\* a consumer's queue.get() returns the head of its queue
LockGet(q) ==
    /\ \A d \in 1..MaxCalls : ~MidRun(lock.calls[d])
    /\ queue_msgs[q] # << >>
    /\ queue_msgs' = [queue_msgs EXCEPT ![q] = Tail(@)]
    /\ UNCHANGED <<queues_by_user, conns, recordVars, envVars, resp>>

LockNext ==
    \/ \E c \in 1..MaxCalls, u \in Users : LockSubscribe(c, u)
    \/ \E c \in 1..MaxCalls, u \in Users, q \in 0..MaxQueues,
          op \in {"unsubscribe", "publish"} : LockCall(c, op, u, q)
    \/ \E c \in 1..MaxCalls : LockStep(c)
    \/ \E q \in QueueIds : LockGet(q)

SpecLock == LockInit /\ [][LockNext]_vars

\* ------------------------------------------------------- the whole backend
Init ==
    /\ InitCommon
    /\ lock = NoLock
    /\ parse = NoParse
    /\ ai_available \in BOOLEAN
    /\ gemini = NoCall

\* a request body field that is an optional dict: absent (None) or a dict
NoDict == [present |-> FALSE, d |-> EmptyDict]
SomeDict(d) == [present |-> TRUE, d |-> d]
\* Python truthiness of Optional[Dict]: None and {} are falsy
TruthyDict(x) == x.present /\ x.d # EmptyDict

\* analysis_data bodies of update_record
EditData ==
    { EmptyDict,
      Dict(Null, "edited", "iso", Null),
      Dict("nonsense", "edited", Null, Null),
      Dict("CALENDAR", "edited", "bad", Null) }

\* final_data bodies of upload_record
FinalData ==
    { Dict("CALENDAR", "final", "iso", Null) }

\* what one generate_content call followed by _parse_json_response gives:
\* the call raises, or the parse yields a JSON value that is not an object
\* (a fenced array, string, number), or it yields a dict (ParseErrorDict on
\* failure)
ModelOutcomes ==
    { [raises |-> TRUE, object |-> FALSE, parsed |-> EmptyDict],
      [raises |-> FALSE, object |-> FALSE, parsed |-> EmptyDict] } \cup
    { [raises |-> FALSE, object |-> TRUE, parsed |-> d] :
        d \in { ParseErrorDict,
                Dict("MEMO", "s", Null, "0.9"),
                Dict("MEMO", "s", Null, Null),
                Dict("CALENDAR", "s", "iso", Null),
                Dict("nonsense", "s", Null, "0.9"),
                Dict(Null, "s", Null, "0.9"),
                Dict("MEMO", Null, Null, "0.9"),
                Dict("CALENDAR", "s", "bad", Null) } }

\* broker.publish as the handlers call it; the guard keeps the queues of the
\* model finite
QueuesHaveRoom(u) ==
    \A q \in QueuesOf(queues_by_user, u) : Len(queue_msgs[q]) < MaxBacklog

HandlerPublish(u, m) ==
    queue_msgs' = BrokerPublish(queues_by_user, queue_msgs, u, m)

\* POST /records/analyze
analyze_content(u, text, image) ==
    IF ~IsTruthyText(text) /\ ~image
    THEN /\ resp' = Resp("analyze_content", Null, 0, 0, 400, NoMsg)
         /\ UNCHANGED <<brokerVars, conns, recordVars, envVars>>
    ELSE /\ Len(records) < MaxRecords
         /\ LET rid == Len(records) + 1
                m == Msg("record_created", rid, "PENDING", EmptyDict, Null, Null)
            IN  /\ records' = Append(records,
                      [user_id |-> u, type |-> InitialType(text), text |-> text,
                       image |-> image, status |-> "PENDING",
                       result |-> EmptyDict, final_result |-> EmptyDict,
                       deleted_at |-> Null])
                /\ HandlerPublish(u, m)
                /\ pubs' = Append(pubs, [created |-> 1, completed |-> 0, failed |-> 0])
                /\ tasks' = Append(tasks,
                      [pc |-> "scheduled", attempt |-> 0, calls |-> 0,
                       user_id |-> u, text |-> text, image |-> image])
                /\ ext' = Append(ext, [calls |-> 0, ok |-> 0])
                /\ resp' = Resp("analyze_content", Null, 0, rid, 200, m)
         /\ UNCHANGED <<queues_by_user, conns, envVars>>

\* _run_ai_analysis, success branch: persist ANALYZED + result, publish
Mut_AnalysisSucceeds_NoPublish(rid, payload) ==
    /\ records' = [records EXCEPT ![rid].status = "ANALYZED",
                                  ![rid].type = payload.type,
                                  ![rid].result = payload]
    /\ resp' = Resp("_run_ai_analysis", Null, 0, rid, 200, NoMsg)
    /\ UNCHANGED <<queue_msgs, pubs>>

Mut_AnalysisSucceeds_PublishesUnwritten(rid, payload) ==
    LET m == Msg("analysis_completed", rid, "ANALYZED", payload, Null, Null)
    IN  /\ HandlerPublish(tasks[rid].user_id, m)
        /\ pubs' = [pubs EXCEPT ![rid].completed = @ + 1]
        /\ resp' = Resp("_run_ai_analysis", Null, 0, rid, 200, m)
        /\ UNCHANGED records

AnalysisSucceeds(rid, payload) ==
    LET m == Msg("analysis_completed", rid, "ANALYZED", payload, Null, Null)
    IN  /\ records' = [records EXCEPT ![rid].status = "ANALYZED",
                                      ![rid].type = payload.type,
                                      ![rid].result = payload]
        /\ HandlerPublish(tasks[rid].user_id, m)
        /\ pubs' = [pubs EXCEPT ![rid].completed = @ + 1]
        /\ resp' = Resp("_run_ai_analysis", Null, 0, rid, 200, m)

\* _run_ai_analysis, except branch: persist the error payload, publish
Mut_AnalysisFails_SetsAnalyzed(rid, error, raw) ==
    LET m == Msg("analysis_failed", rid, Null, EmptyDict, error, Null)
    IN  /\ records' = [records EXCEPT ![rid].result = FailResult(error, raw),
                                      ![rid].status = "ANALYZED"]
        /\ HandlerPublish(tasks[rid].user_id, m)
        /\ pubs' = [pubs EXCEPT ![rid].failed = @ + 1]
        /\ resp' = Resp("_run_ai_analysis", Null, 0, rid, 500, m)

Mut_AnalysisFails_NoPublish(rid, error, raw) ==
    /\ records' = [records EXCEPT ![rid].result = FailResult(error, raw)]
    /\ resp' = Resp("_run_ai_analysis", Null, 0, rid, 500, NoMsg)
    /\ UNCHANGED <<queue_msgs, pubs>>

AnalysisFails(rid, error, raw) ==
    LET m == Msg("analysis_failed", rid, Null, EmptyDict, error, Null)
    IN  /\ records' = [records EXCEPT ![rid].result = FailResult(error, raw)]
        /\ HandlerPublish(tasks[rid].user_id, m)
        /\ pubs' = [pubs EXCEPT ![rid].failed = @ + 1]
        /\ resp' = Resp("_run_ai_analysis", Null, 0, rid, 500, m)

\* _run_ai_analysis from its start to the first model call: the availability
\* check, the choice of analyze_image_bytes / analyze_text, analyze_text's
\* blank-text check
TaskStart(rid) ==
    /\ rid \in RecordIds
    /\ tasks[rid].pc = "scheduled"
    /\ LET t == tasks[rid]
       IN  IF ~ai_available
           THEN /\ AnalysisFails(rid, "ai_unavailable", Null)
                /\ tasks' = [tasks EXCEPT ![rid].pc = "done"]
           ELSE IF ~t.image /\ IsBlankText(t.text)
           THEN /\ AnalysisFails(rid, "empty_text", Null)
                /\ tasks' = [tasks EXCEPT ![rid].pc = "done"]
           ELSE /\ tasks' = [tasks EXCEPT ![rid].pc = "running"]
                /\ resp' = Resp("_run_ai_analysis", Null, 0, rid, 0, NoMsg)
                /\ UNCHANGED <<queue_msgs, records, pubs>>
    /\ UNCHANGED <<queues_by_user, conns, ext, envVars>>

\* one pass of _gemini_generate's loop body on the outcome o of the model
\* call: retry, return a dict (type coerced to MEMO) or raise.  A parsed
\* value that is not a dict raises inside the try block (it has no .get) and
\* is handled as any other exception.
Mut_GeminiStep_TwoAttempts(attempt, o) ==
    IF o.raises \/ ~o.object
    THEN IF attempt < MAX_RETRIES - 1
         THEN [kind |-> "retry", value |-> EmptyDict]
         ELSE [kind |-> "raise", value |-> EmptyDict]
    ELSE IF HasKey(o.parsed, "error") /\ attempt < MAX_RETRIES - 1
         THEN [kind |-> "retry", value |-> EmptyDict]
         ELSE [kind |-> "return",
               value |-> [o.parsed EXCEPT !.type =
                            IF @ \in {"CALENDAR", "MEMO"} THEN @ ELSE "MEMO"]]

Mut_GeminiStep_RejectsBadType(attempt, o) ==
    IF o.raises \/ ~o.object
    THEN IF attempt < MAX_RETRIES
         THEN [kind |-> "retry", value |-> EmptyDict]
         ELSE [kind |-> "raise", value |-> EmptyDict]
    ELSE IF HasKey(o.parsed, "error") /\ attempt < MAX_RETRIES
         THEN [kind |-> "retry", value |-> EmptyDict]
         ELSE IF o.parsed.type \notin {"CALENDAR", "MEMO"}
                  /\ ~HasKey(o.parsed, "error")
         THEN IF attempt < MAX_RETRIES
              THEN [kind |-> "retry", value |-> EmptyDict]
              ELSE [kind |-> "raise", value |-> EmptyDict]
         ELSE [kind |-> "return", value |-> o.parsed]

GeminiStep(attempt, o) ==
    IF o.raises \/ ~o.object
    THEN IF attempt < MAX_RETRIES
         THEN [kind |-> "retry", value |-> EmptyDict]
         ELSE [kind |-> "raise", value |-> EmptyDict]
    ELSE IF HasKey(o.parsed, "error") /\ attempt < MAX_RETRIES
         THEN [kind |-> "retry", value |-> EmptyDict]
         ELSE [kind |-> "return",
               value |-> [o.parsed EXCEPT !.type =
                            IF @ \in {"CALENDAR", "MEMO"} THEN @ ELSE "MEMO"]]

\* _gemini_generate as a whole, a synchronous function: the for loop over
\* range(MAX_RETRIES + 1), the model answering script[1], script[2], ... on
\* its successive invocations, and the raise that follows the loop
RECURSIVE GeminiLoop(_, _)
GeminiLoop(script, attempt) ==
    IF attempt > MAX_RETRIES
    THEN [kind |-> "raise", value |-> EmptyDict, calls |-> attempt]
    ELSE LET g == GeminiStep(attempt, script[attempt + 1])
         IN  IF g.kind = "retry"
             THEN GeminiLoop(script, attempt + 1)
             ELSE [kind |-> g.kind, value |-> g.value, calls |-> attempt + 1]

GeminiGenerate(script) == GeminiLoop(script, 0)

\* one model invocation of the task of record rid, and, when it ends
\* _gemini_generate, the rest of _run_ai_analysis
Mut_GeminiAttempt_RetriesInvalid(rid, o) ==
    /\ rid \in RecordIds
    /\ tasks[rid].pc = "running"
    /\ LET t == tasks[rid]
           g == GeminiStep(t.attempt, o)
       IN  CASE g.kind = "retry" ->
                  /\ tasks' = [tasks EXCEPT ![rid].attempt = @ + 1,
                                            ![rid].calls = @ + 1]
                  /\ resp' = Resp("_run_ai_analysis", Null, 0, rid, 0, NoMsg)
                  /\ UNCHANGED <<queue_msgs, records, pubs>>
             [] g.kind = "raise" ->
                  /\ tasks' = [tasks EXCEPT ![rid].pc = "done", ![rid].calls = @ + 1]
                  /\ AnalysisFails(rid, "transport", Null)
             [] g.kind = "return" /\ HasKey(g.value, "error") ->
                  /\ tasks' = [tasks EXCEPT ![rid].pc = "done", ![rid].calls = @ + 1]
                  /\ AnalysisFails(rid, "parse", g.value.raw_text)
             [] g.kind = "return" /\ ~HasKey(g.value, "error")
                                  /\ ~SchemaValid(g.value) ->
                  /\ tasks' = [tasks EXCEPT ![rid].calls = @ + 1]
                  /\ resp' = Resp("_run_ai_analysis", Null, 0, rid, 0, NoMsg)
                  /\ UNCHANGED <<queue_msgs, records, pubs>>
             [] OTHER ->
                  /\ tasks' = [tasks EXCEPT ![rid].pc = "done", ![rid].calls = @ + 1]
                  /\ AnalysisSucceeds(rid, ModelDump(g.value))
    /\ UNCHANGED <<queues_by_user, conns, ext, envVars>>

GeminiAttempt(rid, o) ==
    /\ rid \in RecordIds
    /\ tasks[rid].pc = "running"
    /\ LET t == tasks[rid]
           g == GeminiStep(t.attempt, o)
       IN  CASE g.kind = "retry" ->
                  /\ tasks' = [tasks EXCEPT ![rid].attempt = @ + 1,
                                            ![rid].calls = @ + 1]
                  /\ resp' = Resp("_run_ai_analysis", Null, 0, rid, 0, NoMsg)
                  /\ UNCHANGED <<queue_msgs, records, pubs>>
             [] g.kind = "raise" ->
                  /\ tasks' = [tasks EXCEPT ![rid].pc = "done", ![rid].calls = @ + 1]
                  /\ AnalysisFails(rid, "transport", Null)
             [] g.kind = "return" /\ HasKey(g.value, "error") ->
                  /\ tasks' = [tasks EXCEPT ![rid].pc = "done", ![rid].calls = @ + 1]
                  /\ AnalysisFails(rid, "parse", g.value.raw_text)
             [] g.kind = "return" /\ ~HasKey(g.value, "error")
                                  /\ ~SchemaValid(g.value) ->
                  /\ tasks' = [tasks EXCEPT ![rid].pc = "done", ![rid].calls = @ + 1]
                  /\ AnalysisFails(rid, "validation", Null)
             [] OTHER ->
                  /\ tasks' = [tasks EXCEPT ![rid].pc = "done", ![rid].calls = @ + 1]
                  /\ AnalysisSucceeds(rid, ModelDump(g.value))
    /\ UNCHANGED <<queues_by_user, conns, ext, envVars>>

\* update_payload of update_record applied to the stored row: text when
\* request.text is given; result, type and status when analysis_data is given
Mut_ApplyUpdate_AlwaysAnalyzed(rec, text, data) ==
    LET validated == ModelDump(data.d)
        withText == IF text # Null THEN [rec EXCEPT !.text = text] ELSE rec
    IN  IF data.present
        THEN [withText EXCEPT !.result = validated, !.type = validated.type,
                              !.status = "ANALYZED"]
        ELSE [withText EXCEPT !.status = "ANALYZED"]

Mut_ApplyUpdate_StoresUnvalidated(rec, text, data) ==
    LET withText == IF text # Null THEN [rec EXCEPT !.text = text] ELSE rec
    IN  IF data.present
        THEN [withText EXCEPT !.result = data.d, !.type = data.d.type,
                              !.status = "ANALYZED"]
        ELSE withText

ApplyUpdate(rec, text, data) ==
    LET validated == ModelDump(data.d)
        withText == IF text # Null THEN [rec EXCEPT !.text = text] ELSE rec
    IN  IF data.present
        THEN [withText EXCEPT !.result = validated, !.type = validated.type,
                              !.status = "ANALYZED"]
        ELSE withText

\* PATCH /records/{record_id}
\* text: request.text (Null for None); data: request.analysis_data
update_record(rid, text, data) ==
    /\ UNCHANGED <<queues_by_user, conns, tasks, pubs, ext, envVars>>
    /\ IF rid \notin RecordIds
       THEN /\ resp' = Resp("update_record", Null, 0, rid, 404, NoMsg)
            /\ UNCHANGED <<queue_msgs, records>>
       ELSE IF data.present /\ ~SchemaValid(data.d)
       THEN \* AIAnalysisData(**analysis_data) raises: the request fails
            /\ resp' = Resp("update_record", Null, 0, rid, 500, NoMsg)
            /\ UNCHANGED <<queue_msgs, records>>
       ELSE IF text = Null /\ ~data.present
       THEN \* "No changes"
            /\ resp' = Resp("update_record", Null, 0, rid, 200, NoMsg)
            /\ UNCHANGED <<queue_msgs, records>>
       ELSE /\ QueuesHaveRoom(records[rid].user_id)
            /\ LET rec == records[rid]
                   validated == ModelDump(data.d)
                   updated == ApplyUpdate(rec, text, data)
                   m == Msg("record_updated", rid,
                            IF data.present THEN "ANALYZED" ELSE Null,
                            IF data.present THEN validated ELSE EmptyDict,
                            Null, Null)
               IN  /\ records' = [records EXCEPT ![rid] = updated]
                   /\ HandlerPublish(rec.user_id, m)
                   /\ resp' = Resp("update_record", Null, 0, rid, 200, m)

\* DELETE /records/{record_id}; an unknown id answers 200 with status "error"
\* (code 404 here tells it from the success answer)
delete_record(rid) ==
    /\ UNCHANGED <<brokerVars, conns, tasks, pubs, ext, envVars>>
    /\ IF rid \notin RecordIds
       THEN /\ resp' = Resp("delete_record", Null, 0, rid, 404, NoMsg)
            /\ UNCHANGED records
       ELSE /\ records' = [records EXCEPT ![rid].status = "CANCELED",
                                          ![rid].deleted_at = "now"]
            /\ resp' = Resp("delete_record", Null, 0, rid, 200, NoMsg)

\* what upload_record finds outside the record: the X-Google-Token header,
\* the user's notes-service connection, and how the external service answers
GoogleTokens == {Null, "token"}
NotionStates == {"lookup_raises", "no_user", "no_token", "no_db", "connected"}
ExternalOutcomes == {"ok", "raises"}

\* the precondition checks of upload_record that raise HTTPException inside
\* the try block; 0 when none fires
UploadPrecondition(record_type, google_token, notion) ==
    IF record_type = "CALENDAR"
    THEN IF google_token = Null THEN 400 ELSE 0
    ELSE CASE notion = "no_user"  -> 404
           [] notion = "no_token" -> 400
           [] notion = "no_db"    -> 400
           [] OTHER               -> 0

\* upload_record's status check
Mut_UploadAllowed_AlsoPending(rec) == rec.status \in {"ANALYZED", "PENDING"}

UploadAllowed(rec) == rec.status = "ANALYZED"

\* upload_record, step 2: a truthy final_data is saved to final_result
Mut_SaveFinalData_IntoResult(rec, final) ==
    IF TruthyDict(final) THEN [rec EXCEPT !.result = final.d] ELSE rec

SaveFinalData(rec, final) ==
    IF TruthyDict(final) THEN [rec EXCEPT !.final_result = final.d] ELSE rec

\* POST /records/{record_id}/upload
upload_record(rid, final, google_token, notion, outcome) ==
    /\ UNCHANGED <<queues_by_user, conns, tasks, pubs, envVars>>
    /\ IF rid \notin RecordIds
       THEN /\ resp' = Resp("upload_record", Null, 0, rid, 404, NoMsg)
            /\ UNCHANGED <<queue_msgs, records, ext>>
       ELSE IF ~UploadAllowed(records[rid])
       THEN /\ resp' = Resp("upload_record", Null, 0, rid, 400, NoMsg)
            /\ UNCHANGED <<queue_msgs, records, ext>>
       ELSE
         LET rec == records[rid]
             upload_data == IF TruthyDict(final) THEN final.d ELSE rec.result
             saved == SaveFinalData(rec, final)
             record_type == IF upload_data.type # Null THEN upload_data.type
                            ELSE rec.type
             pre == UploadPrecondition(record_type, google_token, notion)
             \* the user lookup itself raises: no external call is made
             lookup_fails == record_type # "CALENDAR" /\ notion = "lookup_raises"
         IN  IF pre # 0
             THEN \* except HTTPException: raise
                  /\ records' = [records EXCEPT ![rid] = saved]
                  /\ resp' = Resp("upload_record", Null, 0, rid, pre, NoMsg)
                  /\ UNCHANGED <<queue_msgs, ext>>
             ELSE IF lookup_fails \/ outcome = "raises"
             THEN \* except Exception: publish the failure, answer 500
                  /\ QueuesHaveRoom(rec.user_id)
                  /\ lookup_fails \/ ext[rid].calls < MaxUploads
                  /\ LET m == Msg("record_updated", rid, "ANALYZED", EmptyDict,
                                  "upload_error", Null)
                     IN  /\ records' = [records EXCEPT ![rid] = saved]
                         /\ ext' = [ext EXCEPT ![rid].calls =
                                      IF lookup_fails THEN @ ELSE @ + 1]
                         /\ HandlerPublish(rec.user_id, m)
                         /\ resp' = Resp("upload_record", Null, 0, rid, 500, m)
             ELSE /\ QueuesHaveRoom(rec.user_id)
                  /\ ext[rid].calls < MaxUploads
                  /\ LET m == Msg("record_updated", rid, "COMPLETED", EmptyDict,
                                  Null,
                                  IF record_type = "CALENDAR" THEN "calendar"
                                  ELSE "notion")
                     IN  /\ records' = [records EXCEPT ![rid] =
                               [saved EXCEPT !.status = "COMPLETED",
                                             !.deleted_at = "now"]]
                         /\ ext' = [ext EXCEPT ![rid].calls = @ + 1,
                                               ![rid].ok = @ + 1]
                         /\ HandlerPublish(rec.user_id, m)
                         /\ resp' = Resp("upload_record", Null, 0, rid, 200, m)

\* GET /records/stream: the handler subscribes and returns the response
StreamConnect(u) ==
    /\ Len(queue_msgs) < MaxStreams
    /\ LET q == Len(queue_msgs) + 1
       IN  /\ queue_msgs' = Append(queue_msgs, << >>)
           /\ queues_by_user' = BrokerSubscribe(queues_by_user, u, q)
           /\ conns' = Append(conns, [user |-> u, pc |-> "subscribed",
                                      out |-> << >>, waited |-> 0])
           /\ resp' = Resp("stream_records", u, q, 0, 200, NoMsg)
    /\ UNCHANGED <<recordVars, envVars>>

\* _event_generator: the first frame
StreamStart(q) ==
    /\ q \in DOMAIN conns
    /\ conns[q].pc = "subscribed"
    /\ conns' = [conns EXCEPT ![q].pc = "streaming",
                              ![q].out = Append(@, ConnectedFrame)]
    /\ resp' = Resp("stream_yield", conns[q].user, q, 0, 200, ConnectedFrame)
    /\ UNCHANGED <<brokerVars, recordVars, envVars>>

\* _event_generator: request.is_disconnected() or cancellation ends the loop;
\* finally: broker.unsubscribe
StreamDisconnect(q) ==
    /\ q \in DOMAIN conns
    /\ conns[q].pc = "streaming"
    /\ conns' = [conns EXCEPT ![q].pc = "closed"]
    /\ queues_by_user' = BrokerUnsubscribe(queues_by_user, conns[q].user, q)
    /\ resp' = Resp("stream_closed", conns[q].user, q, 0, 200, NoMsg)
    /\ UNCHANGED <<queue_msgs, recordVars, envVars>>

UpdateInputs == {NoDict} \cup {SomeDict(d) : d \in EditData}
UploadInputs == {NoDict} \cup {SomeDict(d) : d \in FinalData}

\* the record lifecycle: the handlers of api/records.py and the background
\* tasks, with no stream connection open
Next ==
    \/ \E u \in Users, text \in Texts, image \in BOOLEAN :
          analyze_content(u, text, image)
    \/ \E rid \in 1..MaxRecords : TaskStart(rid)
    \/ \E rid \in 1..MaxRecords, o \in ModelOutcomes : GeminiAttempt(rid, o)
    \/ \E rid \in 1..MaxRecords, text \in {Null, "note"}, data \in UpdateInputs :
          update_record(rid, text, data)
    \/ \E rid \in 1..MaxRecords : delete_record(rid)
    \/ \E rid \in 1..MaxRecords, final \in UploadInputs, tok \in GoogleTokens,
          notion \in NotionStates, outcome \in ExternalOutcomes :
          upload_record(rid, final, tok, notion, outcome)

Spec == Init /\ [][Next]_vars

\* ------------------------------------- the lifecycle seen by subscribers
\* The same handlers with stream connections coming and going.  No message is
\* taken from a queue here, so queue_msgs[q] is everything enqueued on q, in
\* order.
EventOutcomes ==
    { [raises |-> TRUE, object |-> FALSE, parsed |-> EmptyDict],
      [raises |-> FALSE, object |-> TRUE, parsed |-> Dict("MEMO", "s", Null, "0.9")] }

EventsInit ==
    /\ InitCommon
    /\ lock = NoLock
    /\ parse = NoParse
    /\ ai_available = TRUE
    /\ gemini = NoCall

EventsNext ==
    \/ \E u \in Users : analyze_content(u, "meet", FALSE)
    \/ \E rid \in 1..MaxRecords : TaskStart(rid)
    \/ \E rid \in 1..MaxRecords, o \in EventOutcomes : GeminiAttempt(rid, o)
    \/ \E rid \in 1..MaxRecords :
          update_record(rid, Null, SomeDict(Dict(Null, "edited", "iso", Null)))
    \/ \E rid \in 1..MaxRecords : delete_record(rid)
    \/ \E rid \in 1..MaxRecords, outcome \in ExternalOutcomes :
          upload_record(rid, NoDict, "token", "connected", outcome)
    \/ \E u \in Users : StreamConnect(u)
    \/ \E q \in 1..MaxStreams : StreamStart(q)
    \/ \E q \in 1..MaxStreams : StreamDisconnect(q)

SpecEvents == EventsInit /\ [][EventsNext]_vars

\* the same with every edit a client may send: no change, a text, analysis
\* data the schema accepts or rejects
EditsNext ==
    \/ \E u \in Users : analyze_content(u, "meet", FALSE)
    \/ \E rid \in 1..MaxRecords : TaskStart(rid)
    \/ \E rid \in 1..MaxRecords, o \in EventOutcomes : GeminiAttempt(rid, o)
    \/ \E rid \in 1..MaxRecords, text \in {Null, "note"}, data \in UpdateInputs :
          update_record(rid, text, data)
    \/ \E rid \in 1..MaxRecords : delete_record(rid)
    \/ \E rid \in 1..MaxRecords, outcome \in ExternalOutcomes :
          upload_record(rid, NoDict, "token", "connected", outcome)
    \/ \E u \in Users : StreamConnect(u)
    \/ \E q \in 1..MaxStreams : StreamStart(q)
    \/ \E q \in 1..MaxStreams : StreamDisconnect(q)

SpecEdits == EventsInit /\ [][EditsNext]_vars

\* the event loop runs every scheduled background task, and the model call
\* returns or raises
LiveEvents ==
    /\ SpecEvents
    /\ \A rid \in 1..MaxRecords :
          /\ WF_vars(TaskStart(rid))
          /\ WF_vars(\E o \in EventOutcomes : GeminiAttempt(rid, o))

\* ------------------------------------------------ the stream consumer loop
\* stream_records with its _event_generator running; conns[q].out is what the
\* generator has yielded, conns[q].waited the time the pending
\* wait_for(queue.get(), timeout) has been waiting.

\* time passes while the generator waits in wait_for
StreamTick(q) ==
    /\ q \in DOMAIN conns
    /\ conns[q].pc = "streaming"
    /\ conns[q].waited < KEEPALIVE_TIMEOUT
    /\ conns' = [conns EXCEPT ![q].waited = @ + 1]
    /\ resp' = Resp("stream_wait", conns[q].user, q, 0, 200, NoMsg)
    /\ UNCHANGED <<brokerVars, recordVars, envVars>>

\* message = await wait_for(queue.get(), ...); yield message
Mut_StreamGet_TakesNewest(q) ==
    /\ q \in DOMAIN conns
    /\ conns[q].pc = "streaming"
    /\ queue_msgs[q] # << >>
    /\ LET n == Len(queue_msgs[q])
           m == queue_msgs[q][n]
       IN  /\ queue_msgs' = [queue_msgs EXCEPT ![q] = SubSeq(@, 1, n - 1)]
           /\ conns' = [conns EXCEPT ![q].out = Append(@, m), ![q].waited = 0]
           /\ resp' = Resp("stream_yield", conns[q].user, q, 0, 200, m)
    /\ UNCHANGED <<queues_by_user, recordVars, envVars>>

StreamGet(q) ==
    /\ q \in DOMAIN conns
    /\ conns[q].pc = "streaming"
    /\ queue_msgs[q] # << >>
    /\ LET m == Head(queue_msgs[q])
       IN  /\ queue_msgs' = [queue_msgs EXCEPT ![q] = Tail(@)]
           /\ conns' = [conns EXCEPT ![q].out = Append(@, m), ![q].waited = 0]
           /\ resp' = Resp("stream_yield", conns[q].user, q, 0, 200, m)
    /\ UNCHANGED <<queues_by_user, recordVars, envVars>>

\* except asyncio.TimeoutError: yield the ping frame.  The timeout cancels
\* the pending queue.get(), which takes nothing from the queue; a message
\* that arrived as the timeout fired is still waiting.
Mut_StreamPing_DropsHead(q) ==
    /\ q \in DOMAIN conns
    /\ conns[q].pc = "streaming"
    /\ conns[q].waited = KEEPALIVE_TIMEOUT
    /\ Len(conns[q].out) < MaxEmitted
    /\ conns' = [conns EXCEPT ![q].out = Append(@, PingFrame), ![q].waited = 0]
    /\ queue_msgs' = [queue_msgs EXCEPT ![q] =
                         IF @ = << >> THEN @ ELSE Tail(@)]
    /\ resp' = Resp("stream_yield", conns[q].user, q, 0, 200, PingFrame)
    /\ UNCHANGED <<queues_by_user, recordVars, envVars>>

StreamPing(q) ==
    /\ q \in DOMAIN conns
    /\ conns[q].pc = "streaming"
    /\ conns[q].waited = KEEPALIVE_TIMEOUT
    /\ Len(conns[q].out) < MaxEmitted
    /\ conns' = [conns EXCEPT ![q].out = Append(@, PingFrame), ![q].waited = 0]
    /\ resp' = Resp("stream_yield", conns[q].user, q, 0, 200, PingFrame)
    /\ UNCHANGED <<brokerVars, recordVars, envVars>>

\* the response is dropped (client gone, request task cancelled) after
\* stream_records has subscribed and before the body iterator's first step:
\* the generator body, and with it the finally block, is never entered
StreamAbort(q) ==
    /\ q \in DOMAIN conns
    /\ conns[q].pc = "subscribed"
    /\ conns' = [conns EXCEPT ![q].pc = "closed"]
    /\ resp' = Resp("stream_closed", conns[q].user, q, 0, 0, NoMsg)
    /\ UNCHANGED <<brokerVars, recordVars, envVars>>

\* a handler publishes the next message to user u
StreamPublish(u) ==
    /\ published < MaxPublished
    /\ LET m == Msg("record_updated", published + 1, Null, EmptyDict, Null, Null)
       IN  /\ queue_msgs' = BrokerPublish(queues_by_user, queue_msgs, u, m)
           /\ resp' = Resp("publish", u, 0, published + 1, 200, m)
    /\ published' = published + 1
    /\ UNCHANGED <<queues_by_user, conns, recordVars, ai_available, gemini, lock,
                   parse>>

StreamNext ==
    \/ \E u \in Users : StreamConnect(u)
    \/ \E q \in 1..MaxStreams : StreamStart(q)
    \/ \E q \in 1..MaxStreams : StreamTick(q)
    \/ \E q \in 1..MaxStreams : StreamGet(q)
    \/ \E q \in 1..MaxStreams : StreamPing(q)
    \/ \E q \in 1..MaxStreams : StreamDisconnect(q)
    \/ \E q \in 1..MaxStreams : StreamAbort(q)
    \/ \E u \in Users : StreamPublish(u)

SpecStream == EventsInit /\ [][StreamNext]_vars

\* ------------------------------------------------- one classification call
\* POST /ai/analyze with type=text: _gemini_generate(..., raise_http=True)
\* against a model whose answers are scripted; the result is the "data" of
\* the 200 answer, an exception is a 500 answer.
ClassifyInit ==
    /\ InitCommon
    /\ lock = NoLock
    /\ parse = NoParse
    /\ ai_available = TRUE
    /\ gemini \in { [NoCall EXCEPT !.script = sc] :
                      sc \in [1..MaxScript -> ModelOutcomes] }

analyze(content) ==
    /\ IF IsBlankText(content)
       THEN /\ resp' = Resp("analyze", Null, 0, 0, 400, NoMsg)
            /\ UNCHANGED gemini
       ELSE LET r == GeminiGenerate(gemini.script)
            IN  /\ gemini' = [gemini EXCEPT !.calls = r.calls, !.kind = r.kind,
                                            !.value = r.value]
                /\ resp' = Resp("analyze", Null, 0, 0,
                                IF r.kind = "return" THEN 200 ELSE 500, NoMsg)
    /\ UNCHANGED <<brokerVars, conns, recordVars, ai_available, published, lock,
                   parse>>

ClassifyNext == \E content \in Texts : analyze(content)

SpecClassify == ClassifyInit /\ [][ClassifyNext]_vars

\* ---------------------------------------------------- response recovery
\* Texts as sequences of characters, over the characters the parser tells
\* apart: the JSON punctuation, the quote, the backslash, a raw newline (for
\* "\n" and "\r"), the letter n (the escape letter), another letter and a digit.
LB == "{"
RB == "}"
LK == "["
RK == "]"
QT == "\""
BS == "\\"
CM == ","
CL == ":"
NL == "\n"

IsWs(c) == c = NL
AllWs(t, a, b) == \A k \in a..b : IsWs(t[k])
NoQuote(t, a, b) == \A k \in a..b : t[k] # QT
Count(t, c) == Cardinality({i \in 1..Len(t) : t[i] = c})
Rep(c, n) == [i \in 1..(IF n > 0 THEN n ELSE 0) |-> c]
Min(S) == CHOOSE x \in S : \A y \in S : x <= y

\* _fix_truncated_json, the character scan: the while loop from position i
RECURSIVE ScanFrom(_, _, _, _, _)
ScanFrom(text, i, out, in_string, escape_next) ==
    IF i > Len(text)
    THEN [out |-> out, in_string |-> in_string]
    ELSE LET c == text[i]
         IN  IF escape_next
             THEN ScanFrom(text, i + 1, Append(out, c), in_string, FALSE)
             ELSE IF c = BS
             THEN ScanFrom(text, i + 1, Append(out, c), in_string, TRUE)
             ELSE IF c = QT
             THEN ScanFrom(text, i + 1, Append(out, c), ~in_string, FALSE)
             ELSE IF in_string /\ c = NL
             THEN ScanFrom(text, i + 1, out \o <<BS, "n">>, in_string, FALSE)
             ELSE ScanFrom(text, i + 1, Append(out, c), in_string, FALSE)

\* the scan followed by: if in_string: text += '"'
RepairScan(text) ==
    LET r == ScanFrom(text, 1, << >>, FALSE, FALSE)
    IN  IF r.in_string THEN Append(r.out, QT) ELSE r.out

\* re.sub(pattern, '', text) for a pattern that is anchored at the end: the
\* text up to the leftmost position from which the pattern matches to the end
CutAt(t, starts) == IF starts = {} THEN t ELSE SubSeq(t, 1, Min(starts) - 1)

\* ,\s*"[^"]*"\s*:\s*$
StripKeyColon(t) ==
    CutAt(t, {p \in 1..Len(t) :
        /\ t[p] = CM
        /\ \E q1 \in (p + 1)..Len(t), q2 \in (p + 2)..Len(t), c \in (p + 3)..Len(t) :
              /\ q1 < q2 /\ q2 < c
              /\ AllWs(t, p + 1, q1 - 1) /\ t[q1] = QT
              /\ NoQuote(t, q1 + 1, q2 - 1) /\ t[q2] = QT
              /\ AllWs(t, q2 + 1, c - 1) /\ t[c] = CL
              /\ AllWs(t, c + 1, Len(t))})

\* ,\s*"[^"]*"\s*$
StripKey(t) ==
    CutAt(t, {p \in 1..Len(t) :
        /\ t[p] = CM
        /\ \E q1 \in (p + 1)..Len(t), q2 \in (p + 2)..Len(t) :
              /\ q1 < q2
              /\ AllWs(t, p + 1, q1 - 1) /\ t[q1] = QT
              /\ NoQuote(t, q1 + 1, q2 - 1) /\ t[q2] = QT
              /\ AllWs(t, q2 + 1, Len(t))})

\* ,\s*"[^"]*$
StripOpenKey(t) ==
    CutAt(t, {p \in 1..Len(t) :
        /\ t[p] = CM
        /\ \E q1 \in (p + 1)..Len(t) :
              /\ AllWs(t, p + 1, q1 - 1) /\ t[q1] = QT
              /\ NoQuote(t, q1 + 1, Len(t))})

\* ,\s*$
StripComma(t) ==
    CutAt(t, {p \in 1..Len(t) : t[p] = CM /\ AllWs(t, p + 1, Len(t))})

\* the closers appended from the counts of brackets and braces in the text
BalanceBrackets(t) ==
    t \o Rep(RK, Count(t, LK) - Count(t, RK))
      \o Rep(RB, Count(t, LB) - Count(t, RB))

\* _fix_truncated_json
FixTruncatedJson(text) ==
    IF text = << >>
    THEN text
    ELSE BalanceBrackets(
           StripComma(StripOpenKey(StripKey(StripKeyColon(RepairScan(text))))))

\* json.loads accepts the text: a recursive-descent reading of the JSON
\* grammar; each operator gives the position after what it read, 0 on error
RECURSIVE SkipWs(_, _)
SkipWs(t, i) == IF i <= Len(t) /\ IsWs(t[i]) THEN SkipWs(t, i + 1) ELSE i

RECURSIVE StringBody(_, _)
StringBody(t, j) ==
    IF j > Len(t) THEN 0
    ELSE IF t[j] = QT THEN j + 1
    ELSE IF t[j] = BS
         THEN IF j + 1 <= Len(t) /\ t[j + 1] \in {QT, BS, "n"}
              THEN StringBody(t, j + 2) ELSE 0
    ELSE IF t[j] = NL THEN 0
    ELSE StringBody(t, j + 1)

RECURSIVE Digits(_, _)
Digits(t, j) == IF j <= Len(t) /\ t[j] = "1" THEN Digits(t, j + 1) ELSE j

RECURSIVE JsonValue(_, _), JsonMembers(_, _), JsonElements(_, _)
JsonValue(t, i) ==
    LET j == SkipWs(t, i)
    IN  IF j > Len(t) THEN 0
        ELSE CASE t[j] = LB ->
                    LET k == SkipWs(t, j + 1)
                    IN  IF k <= Len(t) /\ t[k] = RB THEN k + 1
                        ELSE JsonMembers(t, k)
               [] t[j] = LK ->
                    LET k == SkipWs(t, j + 1)
                    IN  IF k <= Len(t) /\ t[k] = RK THEN k + 1
                        ELSE JsonElements(t, k)
               [] t[j] = QT -> StringBody(t, j + 1)
               [] t[j] = "1" -> Digits(t, j)
               [] OTHER -> 0

JsonMembers(t, i) ==
    LET j == SkipWs(t, i)
    IN  IF j > Len(t) \/ t[j] # QT THEN 0
        ELSE LET k == StringBody(t, j + 1)
                 c == SkipWs(t, k)
             IN  IF k = 0 \/ c > Len(t) \/ t[c] # CL THEN 0
                 ELSE LET v == JsonValue(t, c + 1)
                          e == SkipWs(t, v)
                      IN  IF v = 0 \/ e > Len(t) THEN 0
                          ELSE IF t[e] = CM THEN JsonMembers(t, e + 1)
                          ELSE IF t[e] = RB THEN e + 1
                          ELSE 0

JsonElements(t, i) ==
    LET v == JsonValue(t, i)
        e == SkipWs(t, v)
    IN  IF v = 0 \/ e > Len(t) THEN 0
        ELSE IF t[e] = CM THEN JsonElements(t, e + 1)
        ELSE IF t[e] = RK THEN e + 1
        ELSE 0

JsonLoads(t) ==
    LET e == JsonValue(t, 1)
    IN  e # 0 /\ SkipWs(t, e) = Len(t) + 1

\* the capture of ```json\s*([\s\S]*?)\s*```: the fenced text without the
\* whitespace around it
RECURSIVE StripWs(_)
StripWs(t) ==
    IF t = << >> THEN t
    ELSE IF IsWs(t[1]) THEN StripWs(Tail(t))
    ELSE IF IsWs(t[Len(t)]) THEN StripWs(SubSeq(t, 1, Len(t) - 1))
    ELSE t

\* the match of \{[\s\S]*: the text from its first opening brace
FromFirstBrace(t) ==
    SubSeq(t, Min({i \in 1..Len(t) : t[i] = LB}), Len(t))

\* _extract_partial_fields finds a result: a type and a non-empty summary
ExtractPartialFields(in) == in.has_type /\ in.has_summary

\* _parse_json_response
Mut_ParseJsonResponse_RepairsFirst(in) ==
    IF ~in.fenced /\ Count(in.text, LB) = 0
    THEN Recovery("parse", "failure", <<"extract">>, << >>, << >>, << >>, in.text)
    ELSE LET json_str == IF in.fenced THEN StripWs(in.text)
                         ELSE FromFirstBrace(in.text)
             fixed == FixTruncatedJson(json_str)
         IN  IF JsonLoads(fixed)
             THEN Recovery("parse", "repaired", <<"extract", "repair">>,
                           json_str, RepairScan(json_str), fixed, fixed)
             ELSE Recovery("parse", "failure", <<"extract", "repair">>,
                           json_str, RepairScan(json_str), fixed, in.text)

ParseJsonResponse(in) ==
    IF ~in.fenced /\ Count(in.text, LB) = 0
    THEN Recovery("parse", "failure", <<"extract">>, << >>, << >>, << >>, in.text)
    ELSE LET json_str == IF in.fenced THEN StripWs(in.text)
                         ELSE FromFirstBrace(in.text)
             fixed == FixTruncatedJson(json_str)
         IN  IF JsonLoads(json_str)
             THEN Recovery("parse", "parsed", <<"extract", "strict">>,
                           json_str, << >>, << >>, json_str)
             ELSE IF JsonLoads(fixed)
             THEN Recovery("parse", "repaired", <<"extract", "strict", "repair">>,
                           json_str, RepairScan(json_str), fixed, fixed)
             ELSE IF ExtractPartialFields(in)
             THEN Recovery("parse", "partial",
                           <<"extract", "strict", "repair", "partial">>,
                           json_str, RepairScan(json_str), fixed, << >>)
             ELSE Recovery("parse", "failure",
                           <<"extract", "strict", "repair", "partial">>,
                           json_str, RepairScan(json_str), fixed, in.text)

\* JSON objects a model answers with, whose truncations are repaired
ValidObjects ==
    { d \in { <<LB, QT, "x", QT, CL, LK, LB, QT, "x", QT, CL, "1", RB, RK, RB>>,
              <<LB, QT, "x", QT, CL, QT, "x", QT, CM, QT, "n", QT, CL, LK, "1", CM, "1", RK, RB>>,
              <<LB, QT, "x", QT, CL, LB, QT, "n", QT, CL, QT, "x", BS, "n", "x", QT, RB, RB>>,
              <<LB, NL, QT, "x", QT, CL, QT, BS, QT, "x", QT, CM, NL, QT, "n", QT, CL, LK, RK, RB>>,
              <<LB, QT, "x", QT, CL, "1", CM, QT, "n", QT, CL, QT, "x", CM, "x", QT, RB>> } :
        JsonLoads(d) /\ d[1] = LB }

\* every truncation of such an object after its opening brace
Truncations == UNION { { SubSeq(d, 1, k) : k \in 1..Len(d) } : d \in ValidObjects }

\* every short text over the characters the scan tells apart
ScanChars == {LB, RB, QT, BS, NL, "x"}
ShortTexts == UNION { [1..n -> ScanChars] : n \in 0..MaxText }

RecoveryInit ==
    /\ InitCommon
    /\ lock = NoLock
    /\ ai_available = TRUE
    /\ gemini = NoCall
    /\ parse \in { [input |-> ResponseText(t, f, ht, hs), out |-> NoRecovery] :
                     t \in Truncations \cup ShortTexts,
                     f \in BOOLEAN, ht \in BOOLEAN, hs \in BOOLEAN }

\* _parse_json_response(text)
parse_json_response ==
    /\ parse.out.kind = "idle"
    /\ parse' = [parse EXCEPT !.out = ParseJsonResponse(parse.input)]
    /\ UNCHANGED <<brokerVars, conns, recordVars, ai_available, gemini,
                   published, lock, resp>>

\* _fix_truncated_json(text)
fix_truncated_json ==
    /\ parse.out.kind = "idle"
    /\ parse' = [parse EXCEPT !.out =
                   Recovery("fix", "fixed", << >>, parse.input.text,
                            RepairScan(parse.input.text),
                            FixTruncatedJson(parse.input.text),
                            FixTruncatedJson(parse.input.text))]
    /\ UNCHANGED <<brokerVars, conns, recordVars, ai_available, gemini,
                   published, lock, resp>>

RecoveryNext == parse_json_response \/ fix_truncated_json

SpecRecovery == RecoveryInit /\ [][RecoveryNext]_vars

\* ================================================================ properties
\* A step is told from the call it leaves in resp: resp'.op is the operation
\* that ran, resp'.record_id its record, resp'.code its answer and resp'.msg
\* the message it published.

TerminalStatuses == {"COMPLETED", "CANCELED"}

\* C1: COMPLETED and CANCELED are terminal: once a record has one of them, no
\* update_record, delete_record, upload_record or _run_ai_analysis step
\* changes its status.
C1_TerminalStatusKept ==
    [][\A rid \in RecordIds :
          records[rid].status \in TerminalStatuses
             => records'[rid].status = records[rid].status]_vars

\* C2: upload_record on a record whose status is not ANALYZED is rejected:
\* it answers 400, makes no external call, leaves every stored field as it
\* was and publishes nothing.
C2_UploadRejectedUnlessAnalyzed ==
    [][\A rid \in RecordIds :
          (resp'.op = "upload_record" /\ resp'.record_id = rid
              /\ records[rid].status # "ANALYZED")
             => /\ resp'.code = 400
                /\ resp'.msg = NoMsg
                /\ UNCHANGED <<records, ext, queue_msgs, pubs>>]_vars

\* an upload of a PENDING record was answered 400
C2_Witness ==
    /\ resp.op = "upload_record"
    /\ resp.code = 400
    /\ resp.record_id \in RecordIds
    /\ records[resp.record_id].status = "PENDING"

\* C3: upload_record never writes result, and an upload of an ANALYZED record
\* that fails leaves the record ANALYZED.
C3_FailedUploadKeepsAnalyzed ==
    [][\A rid \in RecordIds :
          (resp'.op = "upload_record" /\ resp'.record_id = rid)
             => /\ records'[rid].result = records[rid].result
                /\ (records[rid].status = "ANALYZED" /\ resp'.code # 200)
                      => records'[rid].status = "ANALYZED"]_vars

\* an upload with final data failed after the external call: the final data
\* is in final_result, the analysis result is still in result
C3_Witness ==
    /\ resp.op = "upload_record"
    /\ resp.code = 500
    /\ resp.record_id \in RecordIds
    /\ records[resp.record_id].status = "ANALYZED"
    /\ records[resp.record_id].final_result # EmptyDict
    /\ records[resp.record_id].result # records[resp.record_id].final_result
    /\ ext[resp.record_id].calls > ext[resp.record_id].ok

\* C4: every upload of an ANALYZED record that fails, for whatever reason,
\* publishes a record_updated event that carries the error.
C4_FailedUploadPublishesError ==
    [][\A rid \in RecordIds :
          (resp'.op = "upload_record" /\ resp'.record_id = rid
              /\ records[rid].status = "ANALYZED" /\ resp'.code # 200)
             => /\ resp'.msg.event = "record_updated"
                /\ resp'.msg.error # Null]_vars

\* C5: a classification task that ends without publishing analysis_completed
\* has failed for good: the step leaves the status as it was, stores the
\* error payload as result and publishes analysis_failed; the record never
\* gets an analysis_completed, and no status other than the four exists.
C5_AnalysisFailureKeepsStatus ==
    [][\A rid \in RecordIds :
          /\ records'[rid].status \in
                {"PENDING", "ANALYZED", "COMPLETED", "CANCELED"}
          /\ (tasks[rid].pc # "done" /\ tasks'[rid].pc = "done"
                 /\ resp'.msg.event # "analysis_completed")
                => /\ records'[rid].status = records[rid].status
                   /\ records'[rid].result.analysis_failed = "true"
                   /\ records'[rid].result.error # Null
                   /\ resp'.msg.event = "analysis_failed"
                   /\ resp'.msg.record_id = rid
          /\ (tasks[rid].pc = "done" /\ pubs[rid].failed > 0)
                => pubs'[rid].completed = 0]_vars

\* the task of a record has failed and the record is still PENDING
C5_Witness ==
    \E rid \in RecordIds :
        /\ tasks[rid].pc = "done"
        /\ pubs[rid].failed = 1
        /\ records[rid].status = "PENDING"
        /\ records[rid].result.analysis_failed = "true"

\* C6 as stated: update_record never changes a record's status, and a
\* record moves from PENDING to ANALYZED only in a step of _run_ai_analysis
\* that publishes analysis_completed.
C6_EditNeverChangesStatus ==
    [][\A rid \in RecordIds :
          /\ (resp'.op = "update_record" /\ resp'.record_id = rid)
                => records'[rid].status = records[rid].status
          /\ (records[rid].status = "PENDING"
                 /\ records'[rid].status = "ANALYZED")
                => /\ resp'.op = "_run_ai_analysis"
                   /\ resp'.msg.event = "analysis_completed"]_vars

\* C6: update_record is a self-loop on ANALYZED, and without analysis data it
\* changes no record's status; a record moves from PENDING to ANALYZED only
\* by a successful classification of it or by an update_record that supplies
\* valid analysis data.
C6_EditSelfLoopOnAnalyzed ==
    [][\A rid \in RecordIds :
          /\ (resp'.op = "update_record" /\ resp'.record_id = rid)
                => /\ records[rid].status = "ANALYZED"
                         => records'[rid].status = "ANALYZED"
                   /\ resp'.msg.analysis_data = EmptyDict
                         => records'[rid].status = records[rid].status
          /\ (records[rid].status = "PENDING"
                 /\ records'[rid].status = "ANALYZED")
                => \/ /\ resp'.op = "_run_ai_analysis"
                      /\ resp'.record_id = rid
                      /\ resp'.msg.event = "analysis_completed"
                   \/ /\ resp'.op = "update_record"
                      /\ resp'.record_id = rid
                      /\ resp'.code = 200
                      /\ SchemaValid(resp'.msg.analysis_data)]_vars

\* an edit with analysis data moved a record to ANALYZED while its
\* classification had not finished and it had never been cancelled
C6_Witness ==
    /\ resp.op = "update_record"
    /\ resp.code = 200
    /\ resp.msg.status = "ANALYZED"
    /\ resp.record_id \in RecordIds
    /\ records[resp.record_id].status = "ANALYZED"
    /\ records[resp.record_id].deleted_at = Null
    /\ tasks[resp.record_id].pc # "done"

\* C7 as stated, for a queue that was subscribed when the record was
\* created: record_created comes before the record's analysis_completed /
\* analysis_failed, and a record_updated that reports an upload outcome
\* comes only after the record's analysis_completed.
C7_UploadEventAfterCompleted ==
    \A q \in QueueIds, rid \in RecordIds :
        LET s == queue_msgs[q]
            About(i) == s[i].record_id = rid
            Created(i) == About(i) /\ s[i].event = "record_created"
            Ended(i) == About(i) /\ s[i].event \in
                            {"analysis_completed", "analysis_failed"}
            Completed(i) == About(i) /\ s[i].event = "analysis_completed"
            Uploaded(i) == /\ About(i) /\ s[i].event = "record_updated"
                           /\ (s[i].status = "COMPLETED" \/ s[i].error # Null)
        IN  \A i \in DOMAIN s :
               /\ Created(i) => \A j \in 1..(i - 1) : ~Ended(j)
               /\ (Uploaded(i) /\ \E j \in 1..(i - 1) : Created(j))
                     => \E k \in 1..(i - 1) : Completed(k)

\* C7: for a queue that was subscribed when the record was created,
\* record_created comes before the record's analysis_completed /
\* analysis_failed, and a record_updated that reports an upload outcome
\* comes only after record_created and after an event that reported the
\* record ANALYZED: its analysis_completed or the record_updated of an edit
\* with analysis data.
C7_UploadEventAfterAnalyzedEvent ==
    \A q \in QueueIds, rid \in RecordIds :
        LET s == queue_msgs[q]
            About(i) == s[i].record_id = rid
            Created(i) == About(i) /\ s[i].event = "record_created"
            Ended(i) == About(i) /\ s[i].event \in
                            {"analysis_completed", "analysis_failed"}
            Uploaded(i) == /\ About(i) /\ s[i].event = "record_updated"
                           /\ (s[i].status = "COMPLETED" \/ s[i].error # Null)
            Analyzed(i) == /\ About(i) /\ s[i].status = "ANALYZED"
                           /\ s[i].error = Null
                           /\ s[i].event \in
                                 {"analysis_completed", "record_updated"}
        IN  \A i \in DOMAIN s :
               /\ Created(i) => \A j \in 1..(i - 1) : ~Ended(j)
               /\ (Uploaded(i) /\ \E j \in 1..(i - 1) : Created(j))
                     => \E j \in 1..(i - 1) :
                           Created(j) /\ \E k \in (j + 1)..(i - 1) : Analyzed(k)

\* a queue holds, in this order, a record's record_created, its
\* analysis_completed and the record_updated of its upload
C7_Witness ==
    \E q \in QueueIds :
        /\ Len(queue_msgs[q]) >= 3
        /\ queue_msgs[q][1].event = "record_created"
        /\ queue_msgs[q][2].event = "analysis_completed"
        /\ queue_msgs[q][3].event = "record_updated"
        /\ queue_msgs[q][3].status = "COMPLETED"
        /\ queue_msgs[q][1].record_id = queue_msgs[q][3].record_id
        /\ queue_msgs[q][2].record_id = queue_msgs[q][3].record_id

\* C8: a scheduled classification task always finishes, whoever is
\* subscribed and whether or not the record was cancelled, and it publishes
\* exactly one of analysis_completed / analysis_failed: none before it has
\* finished, one once it has.
C8_TaskFinishesWithOneEvent ==
    /\ [](\A rid \in RecordIds :
             pubs[rid].completed + pubs[rid].failed =
                IF tasks[rid].pc = "done" THEN 1 ELSE 0)
    /\ \A rid \in 1..MaxRecords :
          (rid \in RecordIds) ~> (rid \in RecordIds /\ tasks[rid].pc = "done")

\* the task of a cancelled record has finished and published its event after
\* the only subscriber had gone
C8_Witness ==
    \E rid \in RecordIds :
        /\ tasks[rid].pc = "done"
        /\ pubs[rid].completed + pubs[rid].failed = 1
        /\ records[rid].status = "CANCELED"
        /\ \E q \in DOMAIN conns :
               /\ conns[q].pc = "closed"
               /\ \A i \in DOMAIN queue_msgs[q] :
                     queue_msgs[q][i].event \notin
                        {"analysis_completed", "analysis_failed"}

\* C9: publish(u, m) appends the one message m to every queue registered for
\* u when it is called and to no other queue, and leaves the registrations
\* as they are; with no queue registered for u it changes nothing and
\* creates no entry for u.
C9_PublishFansOutToUser ==
    [][resp'.op = "publish"
          => /\ resp'.code = 200
             /\ queues_by_user' = queues_by_user
             /\ DOMAIN queue_msgs' = DOMAIN queue_msgs
             /\ \A q \in QueueIds :
                   queue_msgs'[q] =
                      IF q \in QueuesOf(queues_by_user, resp'.user)
                      THEN Append(queue_msgs[q], resp'.msg)
                      ELSE queue_msgs[q]
             /\ QueuesOf(queues_by_user, resp'.user) = {}
                   => /\ UNCHANGED brokerVars
                      /\ resp'.user \notin DOMAIN queues_by_user']_vars

\* a publish reached both queues of one user
C9_Witness ==
    /\ resp.op = "publish"
    /\ Cardinality(QueuesOf(queues_by_user, resp.user)) = 2
    /\ \A q \in QueuesOf(queues_by_user, resp.user) :
          /\ queue_msgs[q] # << >>
          /\ queue_msgs[q][Len(queue_msgs[q])] = resp.msg

\* C10: unsubscribe(u, q) removes q from u's registrations and nothing else:
\* the other registrations and every queue's messages stay; when q is not
\* registered for u (never was, already removed, or u unknown) nothing
\* changes and the call returns.
C10_UnsubscribeRemovesOneQueue ==
    [][resp'.op = "unsubscribe"
          => /\ resp'.code = 200
             /\ queue_msgs' = queue_msgs
             /\ \A x \in Users :
                   QueuesOf(queues_by_user', x) =
                      IF x = resp'.user
                      THEN QueuesOf(queues_by_user, x) \ {resp'.queue}
                      ELSE QueuesOf(queues_by_user, x)
             /\ resp'.queue \notin QueuesOf(queues_by_user, resp'.user)
                   => queues_by_user' = queues_by_user]_vars

\* one of a user's two queues was unsubscribed while it held a message; the
\* other is still registered and the message is still there
C10_Witness ==
    /\ resp.op = "unsubscribe"
    /\ resp.queue \in QueueIds
    /\ resp.queue \notin QueuesOf(queues_by_user, resp.user)
    /\ queue_msgs[resp.queue] # << >>
    /\ QueuesOf(queues_by_user, resp.user) # {}

\* the frames of a stream that are published messages
IsPublished(m) == m.event \notin {"connected", "ping", "none"}

\* what a connection has yielded of the published messages, followed by what
\* still waits in its queue
Pipeline(c, waiting) == SelectSeq(c.out, IsPublished) \o waiting

\* C11: the messages published to a subscriber's user reach it in publish
\* order, once each: what the consumer has emitted followed by what waits in
\* its queue is always in publish order without repeats, and it changes only
\* by a publish to that user adding its message at the end; keepalive pings
\* in between change nothing of it.
C11_FifoDelivery ==
    /\ [](\A q \in DOMAIN conns :
             LET s == Pipeline(conns[q], queue_msgs[q])
             IN  \A i, j \in DOMAIN s :
                    i < j => s[i].record_id < s[j].record_id)
    /\ [][\A q \in DOMAIN conns :
             LET before == Pipeline(conns[q], queue_msgs[q])
                 after  == Pipeline(conns'[q], queue_msgs'[q])
             IN  after = IF /\ resp'.op = "publish"
                            /\ resp'.user = conns[q].user
                            /\ q \in QueuesOf(queues_by_user, conns[q].user)
                         THEN Append(before, resp'.msg)
                         ELSE before]_vars

\* a consumer has emitted an earlier message, then a ping, then a later
\* message
C11_Witness ==
    \E q \in DOMAIN conns :
        \E i, j, k \in DOMAIN conns[q].out :
            /\ i < j /\ j < k
            /\ IsPublished(conns[q].out[i])
            /\ conns[q].out[j] = PingFrame
            /\ IsPublished(conns[q].out[k])
            /\ conns[q].out[i].record_id < conns[q].out[k].record_id

\* C12: no user of the broker's map has an empty queue set, so a user has an
\* entry exactly when a queue of theirs is registered: subscribe leaves the
\* caller's queue registered under the user, and unsubscribe leaves no entry
\* once the user's last queue is gone.
C12_NoEmptyQueueSet ==
    /\ [](\A u \in DOMAIN queues_by_user : queues_by_user[u] # {})
    /\ [](\A u \in Users :
             u \in DOMAIN queues_by_user <=> QueuesOf(queues_by_user, u) # {})
    /\ [][resp'.op = "subscribe"
             => resp'.queue \in QueuesOf(queues_by_user', resp'.user)]_vars

\* a user's only queue was unsubscribed and the user's entry is gone, while
\* the other user still has theirs
C12_Witness ==
    /\ resp.op = "unsubscribe"
    /\ resp.queue \in QueueIds
    /\ resp.user \notin DOMAIN queues_by_user
    /\ \E u \in DOMAIN queues_by_user : queues_by_user[u] = QueueIds \ {resp.queue}
    /\ Len(queue_msgs) = 2

\* C13: publish completes in the publisher's own step whatever waits in the
\* queues: every queue of the user either takes the message at its end or
\* is full and is left as it was, and the call succeeds either way.
C13_PublishNeverBlocks ==
    [][resp'.op = "publish"
          => /\ resp'.code = 200
             /\ \A q \in QueuesOf(queues_by_user, resp'.user) :
                   IF QueueFull(queue_msgs[q])
                   THEN queue_msgs'[q] = queue_msgs[q]
                   ELSE queue_msgs'[q] = Append(queue_msgs[q], resp'.msg)]_vars

\* a publish went through to a queue that already held a message nobody had
\* taken, and to the user's other queue as well
C13_Witness ==
    /\ resp.op = "publish"
    /\ \E q1, q2 \in QueuesOf(queues_by_user, resp.user) :
          /\ q1 # q2
          /\ Len(queue_msgs[q1]) = 2
          /\ queue_msgs[q1][2] = resp.msg
          /\ Len(queue_msgs[q2]) = 1
          /\ queue_msgs[q2][1] = resp.msg

\* C14: the queue of a stream connection that has ended, however it ended,
\* is no longer registered with the broker.
C14_ClosedStreamUnregistered ==
    \A q \in DOMAIN conns :
        conns[q].pc = "closed"
           => q \notin QueuesOf(queues_by_user, conns[q].user)

\* C15: a keepalive timeout makes the consumer yield a ping and go on
\* waiting: the step comes only after KEEPALIVE_TIMEOUT time units of
\* waiting, leaves the connection streaming and its queue registered, and
\* takes nothing from the queue, so what was enqueued before it is still
\* delivered in order after it.
C15_TimeoutOnlyPings ==
    [][\A q \in DOMAIN conns :
          (resp'.op = "stream_yield" /\ resp'.queue = q /\ resp'.msg = PingFrame)
             => /\ conns[q].waited = KEEPALIVE_TIMEOUT
                /\ conns'[q].pc = "streaming"
                /\ conns'[q].out = Append(conns[q].out, PingFrame)
                /\ q \in QueuesOf(queues_by_user', conns[q].user)
                /\ UNCHANGED <<queues_by_user, queue_msgs>>]_vars

\* a ping was yielded while a message was waiting, and the connection is
\* still streaming with the message in its queue
C15_Witness ==
    /\ resp.op = "stream_yield"
    /\ resp.msg = PingFrame
    /\ resp.queue \in DOMAIN conns
    /\ conns[resp.queue].pc = "streaming"
    /\ queue_msgs[resp.queue] # << >>
    /\ resp.queue \in QueuesOf(queues_by_user, resp.user)

\* a parsed model answer that is a dict without the "error" key
ParsedObject(o) == ~o.raises /\ o.object /\ ~HasKey(o.parsed, "error")
\* a model answer on which _parse_json_response gave up
RecoveryFailure(o) == ~o.raises /\ o.object /\ HasKey(o.parsed, "error")

\* C16: one _gemini_generate call invokes the model at most 3 times; after
\* two invocations that raise, a third that parses to an object is returned
\* as the result, and a third that raises ends the call with an error after
\* exactly 3 invocations.
C16_AtMostThreeInvocations ==
    gemini.kind # "idle"
       => /\ gemini.calls <= 3
          /\ (gemini.script[1].raises /\ gemini.script[2].raises)
                => /\ gemini.calls = 3
                   /\ ParsedObject(gemini.script[3])
                         => /\ gemini.kind = "return"
                            /\ gemini.value.summary = gemini.script[3].parsed.summary
                   /\ gemini.script[3].raises
                         => gemini.kind = "raise"

\* the model raised twice and the third answer was returned
C16_Witness ==
    /\ gemini.kind = "return"
    /\ gemini.calls = 3
    /\ gemini.script[1].raises
    /\ gemini.script[2].raises
    /\ gemini.value.summary = "s"

\* C17: when _parse_json_response gives up on an answer, _gemini_generate
\* invokes the model again if attempts remain, and on the last attempt of
\* the budget it ends with an error instead of returning a result.
C17_RecoveryFailureIsTerminal ==
    gemini.kind # "idle"
       => \A i \in 1..gemini.calls :
             RecoveryFailure(gemini.script[i])
                => IF i <= MAX_RETRIES
                   THEN gemini.calls > i
                   ELSE gemini.kind = "raise"

\* C18: whatever _gemini_generate returns has type CALENDAR or MEMO; a parsed
\* object is returned at once, with a missing or unknown type replaced by
\* MEMO and nothing else changed, never retried or refused for its type.
C18_TypeCoercedToMemo ==
    gemini.kind # "idle"
       => /\ gemini.kind = "return" => gemini.value.type \in {"CALENDAR", "MEMO"}
          /\ \A i \in 1..gemini.calls :
                ParsedObject(gemini.script[i])
                   => /\ gemini.calls = i
                      /\ gemini.kind = "return"
                      /\ gemini.value =
                            [gemini.script[i].parsed EXCEPT !.type =
                               IF @ \in {"CALENDAR", "MEMO"} THEN @ ELSE "MEMO"]

\* an answer of type "nonsense" was returned as a MEMO on the first attempt
C18_Witness ==
    /\ gemini.kind = "return"
    /\ gemini.calls = 1
    /\ gemini.script[1].parsed.type = "nonsense"
    /\ gemini.value.type = "MEMO"
    /\ gemini.value.summary = "s"

\* what _gemini_generate makes of a parsed object: its type coerced
Coerced(d) == [d EXCEPT !.type = IF @ \in {"CALENDAR", "MEMO"} THEN @ ELSE "MEMO"]

\* C19: a model answer that parses to an object but violates the result
\* schema ends the classification at once: the task is done after that
\* invocation, publishes analysis_failed and not analysis_completed, stores
\* the error payload and leaves the status as it was; a task that is done
\* invokes the model no more.
C19_SchemaFailureNotRetried ==
    [][\A rid \in RecordIds :
          /\ \A o \in ModelOutcomes :
                (GeminiAttempt(rid, o) /\ ParsedObject(o)
                    /\ ~SchemaValid(Coerced(o.parsed)))
                   => /\ tasks'[rid].pc = "done"
                      /\ tasks'[rid].calls = tasks[rid].calls + 1
                      /\ records'[rid].status = records[rid].status
                      /\ records'[rid].result.analysis_failed = "true"
                      /\ pubs'[rid].failed = 1
                      /\ pubs'[rid].completed = 0
                      /\ resp'.msg.event = "analysis_failed"
          /\ tasks[rid].pc = "done" => tasks'[rid] = tasks[rid]]_vars

\* a task failed on the first answer of the model, which had parsed, and
\* the record is still PENDING
C19_Witness ==
    \E rid \in RecordIds :
        /\ tasks[rid].pc = "done"
        /\ tasks[rid].calls = 1
        /\ pubs[rid].failed = 1
        /\ records[rid].status = "PENDING"
        /\ records[rid].result.error = "validation"

\* C20: a parsed answer of kind MEMO without a confidence value is refused:
\* the step that receives it publishes no analysis_completed, stores no
\* analysis and does not move the record to ANALYZED.
C20_MemoNeedsConfidence ==
    [][\A rid \in RecordIds, o \in ModelOutcomes :
          (GeminiAttempt(rid, o) /\ ParsedObject(o)
              /\ Coerced(o.parsed).type = "MEMO"
              /\ o.parsed.confidence = Null)
             => /\ pubs'[rid].completed = pubs[rid].completed
                /\ records'[rid].result.analysis_failed = "true"
                /\ records'[rid].status = records[rid].status]_vars

\* C21: when the model is unavailable, the background task of a record
\* invokes the model not at all and classifies the record with the keyword
\* classifier: the step that finds the model unavailable ends the task with
\* no invocation made and leaves the record ANALYZED with a classification
\* as its result.
C21_UnavailableFallsBack ==
    [][\A rid \in RecordIds :
          (TaskStart(rid) /\ ~ai_available)
             => /\ tasks'[rid].pc = "done"
                /\ tasks'[rid].calls = 0
                /\ records'[rid].status = "ANALYZED"
                /\ records'[rid].result.type \in {"CALENDAR", "MEMO"}
                /\ records'[rid].result.summary # Null
                /\ records'[rid].result.analysis_failed = Null]_vars

\* the stage st is among the stages a recovery call ran
RanStage(o, st) == \E i \in 1..Len(o.stages) : o.stages[i] = st

\* C22: _parse_json_response runs its stages in the order extraction, strict
\* parse, repaired parse, partial field extraction and stops at the first
\* success: a text with neither a fence nor an opening brace fails after the
\* extraction alone, with the raw text; a strict parse that succeeds is
\* returned as it is and no repair runs; partial extraction runs only after
\* the strict and the repaired parse both failed; every failure carries the
\* raw text.
C22_StagesInOrder ==
    parse.out.op = "parse" =>
      LET in == parse.input
          o  == parse.out
      IN  /\ \E n \in 1..4 :
                o.stages = SubSeq(<<"extract", "strict", "repair", "partial">>, 1, n)
          /\ (~in.fenced /\ Count(in.text, LB) = 0)
                => /\ o.stages = <<"extract">>
                   /\ o.kind = "failure"
          /\ (RanStage(o, "strict") /\ JsonLoads(o.json_str))
                => /\ o.kind = "parsed"
                   /\ o.value = o.json_str
                   /\ ~RanStage(o, "repair")
                   /\ ~RanStage(o, "partial")
          /\ RanStage(o, "repair")
                => /\ RanStage(o, "strict")
                   /\ ~JsonLoads(o.json_str)
                   /\ o.fixed = FixTruncatedJson(o.json_str)
          /\ (o.kind = "repaired") <=> (RanStage(o, "repair") /\ JsonLoads(o.fixed))
          /\ (o.kind = "repaired") => (o.value = o.fixed /\ ~RanStage(o, "partial"))
          /\ RanStage(o, "partial")
                => /\ ~JsonLoads(o.json_str)
                   /\ ~JsonLoads(o.fixed)
          /\ (o.kind = "partial") <=> (RanStage(o, "partial") /\ ExtractPartialFields(in))
          /\ (o.kind = "failure")
                <=> (~RanStage(o, "strict")
                       \/ (RanStage(o, "partial") /\ ~ExtractPartialFields(in)))
          /\ (o.kind = "failure") => o.value = in.text

C22_Witness ==
    /\ parse.out.op = "parse"
    /\ parse.out.kind = "partial"
    /\ parse.out.fixed # parse.out.json_str

\* C23: for every text obtained by truncating a valid JSON object at an offset
\* after its opening brace, _fix_truncated_json gives a text that parses as
\* valid JSON: the closers it appends close every open container, for every
\* nesting of objects and arrays.
C23_TruncationRepaired ==
    (parse.out.op = "fix" /\ parse.input.text \in Truncations)
        => JsonLoads(parse.out.fixed)

\* reading the text t from position i as the scan reads it (a backslash
\* escapes the character after it, an unescaped quote opens or closes a
\* string): TRUE when the text ends inside a string that no quote closed
RECURSIVE EndsInString(_, _, _)
EndsInString(t, i, inside) ==
    IF i > Len(t) THEN inside
    ELSE IF t[i] = BS THEN EndsInString(t, i + 2, inside)
    ELSE IF t[i] = QT THEN EndsInString(t, i + 1, ~inside)
    ELSE EndsInString(t, i + 1, inside)

\* read the same way: a raw newline stands unescaped inside a string of t
RECURSIVE RawNewlineInString(_, _, _)
RawNewlineInString(t, i, inside) ==
    IF i > Len(t) THEN FALSE
    ELSE IF t[i] = BS THEN RawNewlineInString(t, i + 2, inside)
    ELSE IF t[i] = QT THEN RawNewlineInString(t, i + 1, ~inside)
    ELSE IF inside /\ t[i] = NL THEN TRUE
    ELSE RawNewlineInString(t, i + 1, inside)

\* C30: the output of the repair scan of _fix_truncated_json never ends inside
\* an open string: for every input, also one cut right after a backslash
\* inside a string, the closing quote the scan appends terminates the string,
\* and no raw newline is left unescaped inside a string.
C30_ScanClosesString ==
    parse.out.op = "fix"
        => /\ ~EndsInString(parse.out.scanned, 1, FALSE)
           /\ ~RawNewlineInString(parse.out.scanned, 1, FALSE)

\* C24: update_record validates the analysis data again: data the schema
\* rejects leaves the stored record as it was and publishes nothing; an edit
\* that passes stores the validated data (with status ANALYZED and its type)
\* and puts exactly one record_updated event, carrying that data, on every
\* queue of the record's user and on no other; an edit with neither text nor
\* analysis data changes nothing and publishes nothing.
C24_EditRevalidates ==
    [][\A rid \in 1..MaxRecords, text \in {Null, "note"}, data \in UpdateInputs :
          (update_record(rid, text, data) /\ rid \in RecordIds)
             => LET rec == records[rid]
                    mine == QueuesOf(queues_by_user, rec.user_id)
                IN  IF (data.present /\ ~SchemaValid(data.d))
                       \/ (text = Null /\ ~data.present)
                    THEN /\ records' = records
                         /\ queue_msgs' = queue_msgs
                         /\ resp'.msg = NoMsg
                         /\ (data.present => resp'.code # 200)
                    ELSE /\ records'[rid].text = IF text # Null THEN text ELSE rec.text
                         /\ IF data.present
                            THEN /\ records'[rid].result = ModelDump(data.d)
                                 /\ SchemaValid(records'[rid].result)
                                 /\ records'[rid].type = ModelDump(data.d).type
                                 /\ records'[rid].type \in {"CALENDAR", "MEMO"}
                                 /\ records'[rid].status = "ANALYZED"
                                 /\ resp'.msg.analysis_data = ModelDump(data.d)
                                 /\ resp'.msg.status = "ANALYZED"
                            ELSE /\ records'[rid].result = rec.result
                                 /\ records'[rid].type = rec.type
                                 /\ records'[rid].status = rec.status
                         /\ resp'.msg.event = "record_updated"
                         /\ resp'.msg.record_id = rid
                         /\ \A q \in QueueIds :
                               queue_msgs'[q] =
                                  IF q \in mine
                                  THEN Append(queue_msgs[q], resp'.msg)
                                  ELSE queue_msgs[q]]_vars

C24_Witness ==
    /\ resp.op = "update_record"
    /\ resp.msg.event = "record_updated"
    /\ resp.msg.analysis_data.type = "MEMO"
    /\ \E q \in QueueIds :
          /\ q \in QueuesOf(queues_by_user, records[resp.record_id].user_id)
          /\ Len(queue_msgs[q]) > 0
          /\ queue_msgs[q][Len(queue_msgs[q])] = resp.msg
    /\ records[resp.record_id].result = resp.msg.analysis_data

\* the stored row rec holds what the event m reports: its status and its data
Reports(m, rec) ==
    /\ m.status # Null => rec.status = m.status
    /\ m.analysis_data # EmptyDict
          => /\ rec.result = m.analysis_data
             /\ rec.type = m.analysis_data.type

\* C25: an event is published only once the write it reports is applied: when
\* analysis_completed, or record_updated from an edit or a successful upload,
\* is published, the stored record already has the status and the data of
\* the payload, and every queue that received a message received that one.
C25_EventAfterWrite ==
    [][(/\ resp'.msg.event \in {"analysis_completed", "record_updated"}
        /\ resp'.msg.error = Null)
          => /\ Reports(resp'.msg, records'[resp'.msg.record_id])
             /\ (resp'.msg.event = "analysis_completed"
                    => /\ resp'.msg.status = "ANALYZED"
                       /\ resp'.msg.analysis_data # EmptyDict)
             /\ (resp'.op = "upload_record" => resp'.msg.status = "COMPLETED")
             /\ \A q \in QueueIds :
                   Len(queue_msgs'[q]) > Len(queue_msgs[q])
                      => queue_msgs'[q] = Append(queue_msgs[q], resp'.msg)]_vars

C25_Witness ==
    /\ resp.msg.event = "analysis_completed"
    /\ records[resp.msg.record_id].status = "ANALYZED"
    /\ records[resp.msg.record_id].result = resp.msg.analysis_data
    /\ \E q \in QueueIds :
          /\ Len(queue_msgs[q]) > 0
          /\ queue_msgs[q][Len(queue_msgs[q])] = resp.msg

\* C26: every addition to, removal from and snapshot of the map of queues
\* happens while the call that makes it holds the broker's lock, and the lock
\* is held by nobody while a message is put on or taken from a queue.
C26_LockDiscipline ==
    [][/\ \A c \in 1..MaxCalls :
             (lock.calls[c].pc = "map" /\ lock'.calls[c].pc # "map")
                => (lock.holder = c /\ lock'.holder = c)
       /\ queues_by_user' # queues_by_user
             => /\ lock.holder # 0
                /\ lock'.holder = lock.holder
                /\ lock.calls[lock.holder].pc = "map"
       /\ (\E q \in QueueIds : queue_msgs'[q] # queue_msgs[q])
             => (lock.holder = 0 /\ lock'.holder = 0)]_vars

C26_Witness ==
    /\ lock.holder = 0
    /\ \E c \in 1..MaxCalls :
          /\ lock.calls[c].op = "publish"
          /\ lock.calls[c].pc = "done"
          /\ lock.calls[c].snap # {}
          /\ \A q \in lock.calls[c].snap : queue_msgs[q] # << >>

\* C28: once the unsubscribe(user, queue) call of the queue's subscriber has
\* returned, no publish puts a further message on that queue, whatever
\* publish calls for the same user are in flight.
C28_NoEnqueueAfterUnsubscribe ==
    [][\A q \in QueueIds :
          q \in lock.unsubscribed
             => Len(queue_msgs'[q]) <= Len(queue_msgs[q])]_vars

C28_Witness ==
    \E q \in QueueIds, c \in 1..MaxCalls :
       /\ q \in lock.unsubscribed
       /\ lock.calls[c].op = "publish"
       /\ lock.calls[c].user = lock.owner[q]
       /\ lock.calls[c].pc = "done"
       /\ lock.calls[c].snap # {}
       /\ q \notin lock.calls[c].snap

\* C27: in every reachable state a record whose status is ANALYZED stores a
\* validated classification as its result (type CALENDAR or MEMO, with a
\* summary) and never an analysis-failure payload, in whatever order a manual
\* edit and the background classification of the record run.
C27_AnalyzedHasClassification ==
    \A rid \in RecordIds :
       records[rid].status = "ANALYZED"
          => /\ records[rid].result.analysis_failed = Null
             /\ records[rid].result.type \in {"CALENDAR", "MEMO"}
             /\ records[rid].result.summary # Null

\* C29: a record is uploaded successfully at most once: once an upload of the
\* record has succeeded, no later upload_record call for it reaches the
\* external service, whatever edits, cancels, classifications and uploads
\* come in between.
C29_UploadedOnce ==
    [][\A rid \in RecordIds :
          ext[rid].ok >= 1 => ext'[rid].calls = ext[rid].calls]_vars

====
